---- MODULE Spec2Model ----
(***************************************************************************)
(* Token-budget accounting of src/utils/messageUtils.ts: the text          *)
(* normalizer (toHalfWidth), the prompt serializer and token counter       *)
(* (getChatGPTEncoding, countTokens), the budget-constrained selector      *)
(* (limitMessageTokens) and the usage accumulator (updateTotalTokenUsed).  *)
(*                                                                         *)
(* Conventions.  A text is a sequence of UTF-16 code units (integers).     *)
(* JavaScript arrays are 0-based and TLA+ sequences 1-based: messages[0]   *)
(* of the source is messages[1] here.  Message objects live in a heap and  *)
(* arrays hold references, so that aliasing and in-place mutation          *)
(* (message.content = ...) are visible.                                    *)
(***************************************************************************)
EXTENDS Integers, Sequences, FiniteSets, TLC

VARIABLES
    heap,             \* reference -> message object ({role, content})
    messages,         \* the caller's array: a sequence of references
    authored,         \* the caller's messages as they were at call entry
    limit,            \* argument `limit`
    model,            \* argument `model`
    pc,               \* "ready" | "returned" | "threw"
    limitedMessages,  \* the array limitMessageTokens builds and returns
    tokenCount,       \* local `tokenCount`
    serializerCalls,  \* number of getChatGPTEncoding invocations of the call
    totalTokenUsed,   \* the store's totals: model -> {promptTokens, completionTokens}
    initialTotals,    \* the store's totals at application start
    issued,           \* model -> the counts of every invocation made for it, summed
    usageCalls,       \* number of updateTotalTokenUsed invocations made
    lastArgs,         \* arguments of the latest invocation
    beforeLast,       \* the store's totals before the latest invocation
    repeated,         \* the latest invocation had the arguments of the one before
    inputText,        \* argument of toHalfWidth
    normalized,       \* its result
    normalizerDone    \* toHalfWidth has returned

selectorVars == <<heap, messages, authored, limit, model, pc, limitedMessages,
                  tokenCount, serializerCalls>>
usageVars == <<totalTokenUsed, initialTotals, issued, usageCalls, lastArgs,
               beforeLast, repeated>>
normalizerVars == <<inputText, normalized, normalizerDone>>
vars == <<selectorVars, usageVars, normalizerVars>>

----------------------------------------------------------------------------
\* Bounds of the model.

\* longest message history
MaxLen == 5
\* largest token limit
MaxLimit == 36
\* most invocations of updateTotalTokenUsed
MaxCalls == 3
\* longest text given to toHalfWidth, the two sample texts apart
MaxTextLen == 2

----------------------------------------------------------------------------
\* Text normalizer.

\* const halfWidthMap: the four curly quotes and their straight quotes.
halfWidthMap ==
    8220 :> 34 @@ 8221 :> 34 @@ 8216 :> 39 @@ 8217 :> 39

\* The character class of fullWidthSymbolsRegex.
fullWidthSymbolsRegex ==
    (65313..65338) \cup (65345..65370) \cup (65296..65305) \cup
    { 65288, 65289, 65339, 65341, 65371, 65373, 65308, 65310, 65286, 65283,
      65312, 65290, 65291, 65293, 65309, 65374, 65281, 65285, 65287, 65282,
      65292, 65294, 65295, 65306, 65307, 65311, 65340, 65342, 65343, 65344,
      65372, 65507 }

\* The table halfWidthSymbolsMapping, row by row.
halfWidthSymbolsMapping ==
    65313 :> 65 @@ 65314 :> 66 @@ 65315 :> 67 @@ 65316 :> 68 @@ 65317 :> 69 @@
    65318 :> 70 @@ 65319 :> 71 @@ 65320 :> 72 @@ 65321 :> 73 @@ 65322 :> 74 @@
    65323 :> 75 @@ 65324 :> 76 @@ 65325 :> 77 @@ 65326 :> 78 @@ 65327 :> 79 @@
    65328 :> 80 @@ 65329 :> 81 @@ 65330 :> 82 @@ 65331 :> 83 @@ 65332 :> 84 @@
    65333 :> 85 @@ 65334 :> 86 @@ 65335 :> 87 @@ 65336 :> 88 @@ 65337 :> 89 @@
    65338 :> 90 @@ 65345 :> 97 @@ 65346 :> 98 @@ 65347 :> 99 @@ 65348 :> 100 @@
    65349 :> 101 @@ 65350 :> 102 @@ 65351 :> 103 @@ 65352 :> 104 @@ 65353 :> 105 @@
    65354 :> 106 @@ 65355 :> 107 @@ 65356 :> 108 @@ 65357 :> 109 @@ 65358 :> 110 @@
    65359 :> 111 @@ 65360 :> 112 @@ 65361 :> 113 @@ 65362 :> 114 @@ 65363 :> 115 @@
    65364 :> 116 @@ 65365 :> 117 @@ 65366 :> 118 @@ 65367 :> 119 @@ 65368 :> 120 @@
    65369 :> 121 @@ 65370 :> 122 @@ 65296 :> 48 @@ 65297 :> 49 @@ 65298 :> 50 @@
    65299 :> 51 @@ 65300 :> 52 @@ 65301 :> 53 @@ 65302 :> 54 @@ 65303 :> 55 @@
    65304 :> 56 @@ 65305 :> 57 @@ 65288 :> 40 @@ 65289 :> 41 @@ 65339 :> 91 @@
    65341 :> 93 @@ 65371 :> 123 @@ 65373 :> 125 @@ 65308 :> 60 @@ 65310 :> 62 @@
    65286 :> 38 @@ 65283 :> 35 @@ 65312 :> 64 @@ 65290 :> 42 @@ 65291 :> 43 @@
    65293 :> 45 @@ 65309 :> 61 @@ 65374 :> 126 @@ 65281 :> 33 @@ 65285 :> 37 @@
    65287 :> 39 @@ 65282 :> 34 @@ 65292 :> 44 @@ 65294 :> 46 @@ 65295 :> 47 @@
    65306 :> 58 @@ 65307 :> 59 @@ 65311 :> 63 @@ 65340 :> 92 @@ 65342 :> 94 @@
    65343 :> 95 @@ 65344 :> 96 @@ 65372 :> 124 @@ 65507 :> 126

\* The replace callback: halfWidthSymbolsMapping[match] || match.
ReplaceMatch(match) ==
    IF match \in DOMAIN halfWidthSymbolsMapping
        THEN halfWidthSymbolsMapping[match]
        ELSE match

\* text.replace(fullWidthSymbolsRegex, callback): every code unit the class
\* matches is replaced by the callback's result, the others are kept.
toHalfWidth(text) ==
    [i \in 1..Len(text) |->
        IF text[i] \in fullWidthSymbolsRegex THEN ReplaceMatch(text[i]) ELSE text[i]]

----------------------------------------------------------------------------
\* Prompt serializer and token counter.
\* The serialized prompt is a sequence of pieces: a reserved control marker,
\* a run of plain text (a role name, a newline) or one content character.

Roles == {"system", "user", "assistant"}
Models == {"gpt-3.5-turbo", "gpt-4"}

\* What messages[i] evaluates to when i is out of range.
Undefined == [role |-> "undefined", content |-> <<>>]

Special(s) == [kind |-> "special", text |-> s, code |-> 0]
Plain(s) == [kind |-> "plain", text |-> s, code |-> 0]
Char(c) == [kind |-> "char", text |-> "", code |-> c]

Literal(content) == [i \in 1..Len(content) |-> Char(content[i])]

RECURSIVE Join(_, _)
\* Array.prototype.join: the parts with sep between neighbours.
Join(parts, sep) ==
    IF Len(parts) = 0 THEN <<>>
    ELSE IF Len(parts) = 1 THEN parts[1]
    ELSE parts[1] \o sep \o Join(Tail(parts), sep)

isGpt3(m) == m = "gpt-3.5-turbo"
msgSep(m) == IF isGpt3(m) THEN <<Plain("\n")>> ELSE <<>>
roleSep(m) == IF isGpt3(m) THEN <<Plain("\n")>> ELSE <<Special("<|im_sep|>")>>

\* The template `<|im_start|>${role}${roleSep}${_content}<|im_end|>`.
SerializeMessage(msg, m) ==
    <<Special("<|im_start|>"), Plain(msg.role)>> \o roleSep(m)
        \o Literal(toHalfWidth(msg.content)) \o <<Special("<|im_end|>")>>

\* const serialized of getChatGPTEncoding.
Serialized(msgs, m) ==
    Join(<< Join([i \in 1..Len(msgs) |-> SerializeMessage(msgs[i], m)], msgSep(m)),
            <<Special("<|im_start|>"), Plain("assistant")>> \o roleSep(m) >>,
         msgSep(m))

\* The external encoder on one piece.  A registered control marker is one
\* token ('all' mode); a role name or a newline is one token; a content
\* character is one token if ASCII and otherwise one token per UTF-8 byte
\* (byte-level BPE without a merge).  A piece of empty text gives no token.
TokensOfPiece(p) ==
    IF p.kind = "char"
        THEN IF p.code < 128 THEN 1 ELSE IF p.code < 2048 THEN 2 ELSE 3
        ELSE IF p.text = "" THEN 0 ELSE 1

RECURSIVE EncodedLength(_)
\* encoder.encode(serialized, 'all').length
EncodedLength(serialized) ==
    IF Len(serialized) = 0 THEN 0
    ELSE TokensOfPiece(Head(serialized)) + EncodedLength(Tail(serialized))

\* The destructuring ({ role, content }) of an undefined element throws a
\* TypeError inside messages.map.
DestructureThrows(msgs) == \E i \in 1..Len(msgs) : msgs[i] = Undefined

\* getChatGPTEncoding(messages, model).length
getChatGPTEncoding(msgs, m) == EncodedLength(Serialized(msgs, m))

countTokens(msgs, m) ==
    IF Len(msgs) = 0 THEN 0 ELSE getChatGPTEncoding(msgs, m)

----------------------------------------------------------------------------
\* Budget-constrained selector.

Refs == 1..(2 * MaxLen)

\* messages[i] of the source for the 1-based position i (undefined when out
\* of range).
At(h, arr, i) == IF i \in 1..Len(arr) THEN h[arr[i]] ELSE Undefined

\* A spread that yields the object itself instead of a copy.
SpreadRefAlias(ref, i) == ref

\* The reference of the object the spread { ...messages[i] } creates for the
\* message at position i: a fresh one.
SpreadRef(ref, i) == MaxLen + i

\* The heap after { ...messages[i] }: the new object has the fields of the old.
Spread(h, ref, i) == [h EXCEPT ![SpreadRef(ref, i)] = h[ref]]

\* push instead of unshift.
UnshiftAtEnd(arr, item) == arr \o <<item>>

\* Array.prototype.unshift with one item.
Unshift(arr, item) == <<item>> \o arr

\* Array.prototype.splice(start, 0, item): a negative start counts from the
\* end and is clamped to 0, a start beyond the end is clamped to the length.
Splice(arr, start, item) ==
    LET len == Len(arr)
        s == IF start < 0
                THEN (IF len + start > 0 THEN len + start ELSE 0)
                ELSE (IF start < len THEN start ELSE len)
    IN  SubSeq(arr, 1, s) \o <<item>> \o SubSeq(arr, s + 1, len)

\* The scan's test without the running total.
ExceedsLimitAlone(count, total, lim) == count > lim

\* The scan's test with >= for >.
ExceedsLimitStrict(count, total, lim) == count + total >= lim

\* The scan's test `count + tokenCount > limit`.
ExceedsLimit(count, total, lim) == count + total > lim

RECURSIVE ScanLoopSkip(_, _)
\* A scan that skips a message that does not fit and goes on, instead of
\* stopping at it.
ScanLoopSkip(i, f) ==
    IF i < 2 THEN f
    ELSE
        LET count == countTokens(<<f.heap[messages[i]]>>, model)
        IN  IF count + f.tokenCount > limit
                THEN ScanLoopSkip(i - 1, [f EXCEPT !.calls = @ + 1])
                ELSE ScanLoopSkip(i - 1,
                        [heap |-> [f.heap EXCEPT ![MaxLen + i] = f.heap[messages[i]]],
                         limitedMessages |-> <<MaxLen + i>> \o f.limitedMessages,
                         tokenCount |-> f.tokenCount + count,
                         calls |-> f.calls + 1])

RECURSIVE ScanLoop(_, _)
\* The loop for (i = messages.length - 1; i >= 1; i--) from 1-based position
\* i on; f holds the locals it changes.
ScanLoop(i, f) ==
    IF i < 2 THEN f
    ELSE
        LET count == countTokens(<<f.heap[messages[i]]>>, model)
        IN  IF ExceedsLimit(count, f.tokenCount, limit)
                THEN [f EXCEPT !.calls = @ + 1]
                ELSE ScanLoop(i - 1,
                        [heap |-> Spread(f.heap, messages[i], i),
                         limitedMessages |->
                             Unshift(f.limitedMessages, SpreadRef(messages[i], i)),
                         tokenCount |-> f.tokenCount + count,
                         calls |-> f.calls + 1])

\* limitedMessages.forEach(message => message.content = toHalfWidth(...)).
NormalizeAll(h, arr) ==
    [r \in DOMAIN h |->
        IF \E k \in 1..Len(arr) : arr[k] = r
            THEN [h[r] EXCEPT !.content = toHalfWidth(@)]
            ELSE h[r]]

\* An insertion two slots from the end.
SystemInsertStartTwo == 0 - 2

\* Where the insertion of the retained system message starts.
SystemInsertStart == -3

\* The test of the system message: systemTokenCount < limit.
SystemFits(systemTokenCount, lim) == systemTokenCount < lim

\* The test of a non-system first message.
FirstFits(firstMessageTokenCount, total, lim) == firstMessageTokenCount + total < lim

LimitMessageTokens ==
    /\ pc = "ready"
    /\ LET first == At(heap, messages, 1)
           isSystemFirstMessage == first.role = "system"
           systemTokenCount == countTokens(<<first>>, model)
           retainSystemMessage ==
               isSystemFirstMessage /\ SystemFits(systemTokenCount, limit)
           f0 == [heap |-> heap,
                  limitedMessages |-> <<>>,
                  tokenCount |-> IF retainSystemMessage THEN systemTokenCount ELSE 0,
                  calls |-> IF isSystemFirstMessage THEN 1 ELSE 0]
           f1 == ScanLoop(Len(messages), f0)
       IN  IF retainSystemMessage
           THEN
               /\ heap' = NormalizeAll(Spread(f1.heap, messages[1], 1),
                              Splice(f1.limitedMessages, SystemInsertStart,
                                     SpreadRef(messages[1], 1)))
               /\ limitedMessages' = Splice(f1.limitedMessages, SystemInsertStart,
                                            SpreadRef(messages[1], 1))
               /\ tokenCount' = f1.tokenCount
               /\ serializerCalls' = f1.calls
               /\ pc' = "returned"
           ELSE IF ~isSystemFirstMessage
           THEN
               IF DestructureThrows(<<first>>)
               THEN
                   \* countTokens([undefined]) reaches the serializer, which throws
                   /\ heap' = f1.heap
                   /\ limitedMessages' = f1.limitedMessages
                   /\ tokenCount' = f1.tokenCount
                   /\ serializerCalls' = f1.calls + 1
                   /\ pc' = "threw"
               ELSE
                   LET firstMessageTokenCount == countTokens(<<first>>, model)
                       out == IF FirstFits(firstMessageTokenCount, f1.tokenCount, limit)
                                 THEN Unshift(f1.limitedMessages,
                                              SpreadRef(messages[1], 1))
                                 ELSE f1.limitedMessages
                       h2 == IF FirstFits(firstMessageTokenCount, f1.tokenCount, limit)
                                 THEN Spread(f1.heap, messages[1], 1)
                                 ELSE f1.heap
                   IN  /\ heap' = NormalizeAll(h2, out)
                       /\ limitedMessages' = out
                       /\ tokenCount' = f1.tokenCount
                       /\ serializerCalls' = f1.calls + 1
                       /\ pc' = "returned"
           ELSE
               /\ heap' = NormalizeAll(f1.heap, f1.limitedMessages)
               /\ limitedMessages' = f1.limitedMessages
               /\ tokenCount' = f1.tokenCount
               /\ serializerCalls' = f1.calls
               /\ pc' = "returned"
    /\ UNCHANGED <<messages, authored, limit, model>>
    /\ UNCHANGED <<usageVars, normalizerVars>>

----------------------------------------------------------------------------
\* Usage accumulator.

\* The object {} of `updatedTotalTokenUsed[model] ?? {}`.
EmptyObject == [x \in {} |-> 0]

\* JSON.parse(JSON.stringify(totals)): a structure of new objects with the
\* same keys and the same numbers.
JSONCopy(totals) ==
    [m \in DOMAIN totals |-> [field \in DOMAIN totals[m] |-> totals[m][field]]]

\* A read of the totals as they were at application start.
StaleTotals == initialTotals

\* useStore.getState().totalTokenUsed, read when the function runs.
StoredTotals == totalTokenUsed

\* updatedTotalTokenUsed[model] ?? {}
EntryOrEmpty(totals, m) == IF m \in DOMAIN totals THEN totals[m] ELSE EmptyObject

\* The destructuring defaults { promptTokens = 0, completionTokens = 0 }.
FieldOrZero(entry, field) == IF field \in DOMAIN entry THEN entry[field] ELSE 0

\* An assignment that builds the totals anew with the one entry only.
AssignEntryAlone(totals, m, newPromptTokens, newCompletionTokens) ==
    [k \in {m} |->
        [promptTokens |-> FieldOrZero(EntryOrEmpty(totals, m), "promptTokens")
                              + newPromptTokens,
         completionTokens |-> FieldOrZero(EntryOrEmpty(totals, m), "completionTokens")
                                  + newCompletionTokens]]

\* updatedTotalTokenUsed[model] = { promptTokens: ..., completionTokens: ... }
AssignEntry(totals, m, newPromptTokens, newCompletionTokens) ==
    LET promptTokens == FieldOrZero(EntryOrEmpty(totals, m), "promptTokens")
        completionTokens == FieldOrZero(EntryOrEmpty(totals, m), "completionTokens")
    IN  [k \in DOMAIN totals \cup {m} |->
            IF k = m
                THEN [promptTokens |-> promptTokens + newPromptTokens,
                      completionTokens |-> completionTokens + newCompletionTokens]
                ELSE totals[k]]

\* The store's setter: the totals become the ones given.
setTotalTokenUsed(totals) == totalTokenUsed' = totals

\* The function is synchronous: it runs from its read of the store to its
\* write-back without a suspension point, so an invocation is one step.
updateTotalTokenUsed(m, promptMessages, completionMessage) ==
    /\ usageCalls < MaxCalls
    /\ LET updatedTotalTokenUsed == JSONCopy(StoredTotals)
           newPromptTokens == countTokens(promptMessages, m)
           newCompletionTokens == countTokens(<<completionMessage>>, m)
       IN  /\ setTotalTokenUsed(AssignEntry(updatedTotalTokenUsed, m,
                                            newPromptTokens, newCompletionTokens))
           /\ issued' = [issued EXCEPT
                  ![m] = [promptTokens |-> @.promptTokens + newPromptTokens,
                          completionTokens |-> @.completionTokens + newCompletionTokens]]
    /\ usageCalls' = usageCalls + 1
    /\ lastArgs' = [model |-> m, promptMessages |-> promptMessages,
                    completionMessage |-> completionMessage]
    /\ beforeLast' = totalTokenUsed
    /\ repeated' = (lastArgs = lastArgs')
    /\ UNCHANGED initialTotals
    /\ UNCHANGED <<selectorVars, normalizerVars>>

\* The prompts and completions the accumulator is called with.
UsagePrompts ==
    { <<>>,
      <<[role |-> "user", content |-> <<65313>>]>>,
      <<[role |-> "system", content |-> <<>>], [role |-> "user", content |-> <<8220>>]>> }
UsageCompletions ==
    { [role |-> "assistant", content |-> <<>>],
      [role |-> "assistant", content |-> <<97, 98>>] }

\* The totals the store may hold at application start: nothing, a whole
\* entry, an entry lacking a field, an entry lacking both.
InitialStores ==
    { EmptyObject,
      [m \in {"gpt-4"} |-> [promptTokens |-> 5, completionTokens |-> 2]],
      [m \in {"gpt-3.5-turbo"} |-> [field \in {"promptTokens"} |-> 4]],
      [m \in {"gpt-4"} |-> EmptyObject] }

NoArgs == [model |-> "none", promptMessages |-> <<>>, completionMessage |-> Undefined]

UsageInit ==
    /\ totalTokenUsed \in InitialStores
    /\ initialTotals = totalTokenUsed
    /\ issued = [m \in Models |-> [promptTokens |-> 0, completionTokens |-> 0]]
    /\ usageCalls = 0
    /\ lastArgs = NoArgs
    /\ beforeLast = totalTokenUsed
    /\ repeated = FALSE

\* The accumulator is not in use.
UsageIdle ==
    /\ totalTokenUsed = EmptyObject
    /\ initialTotals = EmptyObject
    /\ issued = [m \in Models |-> [promptTokens |-> 0, completionTokens |-> 0]]
    /\ usageCalls = 0
    /\ lastArgs = NoArgs
    /\ beforeLast = EmptyObject
    /\ repeated = FALSE

----------------------------------------------------------------------------
\* The normalizer on its own.

Normalize ==
    /\ ~normalizerDone
    /\ normalized' = toHalfWidth(inputText)
    /\ normalizerDone' = TRUE
    /\ UNCHANGED inputText
    /\ UNCHANGED <<selectorVars, usageVars>>

\* Characters of the texts: full-width A, 1, %, macron and dollar sign (the
\* last is outside the class), the four curly quotes, plain t and ".
TextAlphabet == { 65313, 65297, 65285, 65507, 65284, 8220, 8221, 8216, 8217, 116, 34 }

RECURSIVE Texts(_)
\* The texts of at most n characters.
Texts(n) ==
    IF n = 0 THEN {<<>>}
    ELSE LET shorter == Texts(n - 1)
         IN  shorter \cup
             { Append(t, c) : t \in { x \in shorter : Len(x) = n - 1 },
                              c \in TextAlphabet }

\* The texts of the spec's examples: curly-quoted test, full-width A1%.
SampleTexts == { <<8220, 116, 101, 115, 116, 8221>>, <<65313, 65297, 65285>> }

NormalizerInit ==
    /\ inputText \in Texts(MaxTextLen) \cup SampleTexts
    /\ normalized = <<>>
    /\ normalizerDone = FALSE

NormalizerIdle ==
    /\ inputText = <<>>
    /\ normalized = <<>>
    /\ normalizerDone = FALSE

----------------------------------------------------------------------------
\* The histories the selector is called with.

\* Message contents: empty, a full-width letter (one token once normalized),
\* a curly quote (three tokens, not touched by toHalfWidth).
Contents == { <<>>, <<65313>>, <<8220>> }

\* The first message: any role, any content.
FirstMessages == [role : Roles, content : Contents]

\* The later messages: the turns of a conversation, of three different sizes.
LaterMessages ==
    { [role |-> "user", content |-> <<>>],
      [role |-> "assistant", content |-> <<65313>>],
      [role |-> "user", content |-> <<8220>>] }

RECURSIVE Histories(_)
\* The histories of at most n messages.
Histories(n) ==
    IF n = 0 THEN {<<>>}
    ELSE LET shorter == Histories(n - 1)
         IN  shorter \cup
             { Append(h, msg) : h \in { x \in shorter : Len(x) = n - 1 },
                                msg \in IF n = 1 THEN FirstMessages ELSE LaterMessages }

SelectorInit ==
    /\ authored \in Histories(MaxLen)
    /\ messages = [i \in 1..Len(authored) |-> i]
    /\ heap = [r \in Refs |-> IF r <= Len(authored) THEN authored[r] ELSE Undefined]
    /\ limit \in 0..MaxLimit
    /\ model \in Models
    /\ pc = "ready"
    /\ limitedMessages = <<>>
    /\ tokenCount = 0
    /\ serializerCalls = 0

\* The selector is not in use.
SelectorIdle ==
    /\ authored = <<>>
    /\ messages = <<>>
    /\ heap = [r \in Refs |-> Undefined]
    /\ limit = 0
    /\ model = "gpt-4"
    /\ pc = "idle"
    /\ limitedMessages = <<>>
    /\ tokenCount = 0
    /\ serializerCalls = 0

----------------------------------------------------------------------------
\* Specifications: the selector called once on any history; the accumulator
\* called any number of times in any order; the normalizer called once.

Init == SelectorInit /\ UsageIdle /\ NormalizerIdle

Next == LimitMessageTokens

Spec == Init /\ [][Next]_vars

InitUsage == SelectorIdle /\ UsageInit /\ NormalizerIdle

NextUsage ==
    \E m \in Models, promptMessages \in UsagePrompts,
       completionMessage \in UsageCompletions :
        updateTotalTokenUsed(m, promptMessages, completionMessage)

SpecUsage == InitUsage /\ [][NextUsage]_vars

InitNormalizer == SelectorIdle /\ UsageIdle /\ NormalizerInit

NextNormalizer == Normalize

SpecNormalizer == InitNormalizer /\ [][NextNormalizer]_vars

----------------------------------------------------------------------------
\* Vocabulary of the selector's properties.

\* The input position the k-th returned message was copied from.
Origin(k) == limitedMessages[k] - MaxLen
Origins == [k \in 1..Len(limitedMessages) |-> Origin(k)]

\* The k-th returned message.
Out(k) == heap[limitedMessages[k]]
Output == [k \in 1..Len(limitedMessages) |-> Out(k)]

\* countTokens([m]) under the call's model.
CountOne(msg) == countTokens(<<msg>>, model)

RECURSIVE SumCounts(_)
SumCounts(msgs) ==
    IF Len(msgs) = 0 THEN 0 ELSE CountOne(Head(msgs)) + SumCounts(Tail(msgs))

\* The positions j..n, in order.
Run(j, n) == [k \in 1..(n - j + 1) |-> j + k - 1]

\* The returned messages that come from the input positions after the first.
IsLater(o) == o >= 2
AcceptedOrigins == SelectSeq(Origins, IsLater)

\* Where the copy of the first message stands in the output (0: nowhere).
FirstAt ==
    IF \E k \in 1..Len(Origins) : Origins[k] = 1
        THEN CHOOSE k \in 1..Len(Origins) : Origins[k] = 1
        ELSE 0

HasSystemFirst == Len(authored) > 0 /\ authored[1].role = "system"

\* The tokens reserved for a retained system message.
Reserved ==
    IF HasSystemFirst /\ CountOne(authored[1]) < limit
        THEN CountOne(authored[1]) ELSE 0

\* Cumulative individual count of the input positions j..n.
RunCost(j) == SumCounts(SubSeq(authored, j, Len(authored)))

Max(a, b) == IF a > b THEN a ELSE b

----------------------------------------------------------------------------
\* C1: for a non-empty history and a positive limit, the sum of the
\* individual token counts of the returned messages is at most the limit,
\* and the joint count of the returned list is at most that sum.
C1_WithinLimit ==
    (pc = "returned" /\ Len(authored) > 0 /\ limit > 0) =>
        /\ SumCounts(Output) <= limit
        /\ countTokens(Output, model) <= SumCounts(Output)

\* C1 witness: a retained system message and accepted later messages fill the
\* limit exactly.
C1_Witness ==
    /\ pc = "returned"
    /\ HasSystemFirst
    /\ FirstAt > 0
    /\ Len(limitedMessages) >= 3
    /\ limit > 0
    /\ SumCounts(Output) = limit

\* C2 as stated: the output is a contiguous suffix of the input, optionally
\* prefixed by the first message, and that only when the first message has
\* role system.
C2_SuffixWithSystemPrefix ==
    pc = "returned" =>
        \E j \in 1..(Len(authored) + 1) :
            \/ Origins = Run(j, Len(authored))
            \/ /\ HasSystemFirst
               /\ Origins = <<1>> \o Run(j, Len(authored))

\* C2 amended: the returned messages other than the copy of the first one are
\* a contiguous suffix of the input positions after the first; the first
\* message is returned at most once: a system message when its count is
\* below the limit, three slots before the end of the accepted run (at the
\* head when fewer than three were accepted), and a first message of another
\* role when its count plus the accepted total is below the limit, at the
\* head, whether or not the messages between it and the run were accepted.
C2_SuffixPlusFirst ==
    pc = "returned" =>
        LET n == Len(authored)
            k == Len(AcceptedOrigins)
        IN  /\ AcceptedOrigins = Run(n - k + 1, n)
            /\ Len(Origins) = k + (IF FirstAt > 0 THEN 1 ELSE 0)
            /\ IF HasSystemFirst
                   THEN /\ (FirstAt > 0) <=> (CountOne(authored[1]) < limit)
                        /\ FirstAt > 0 => FirstAt = Max(k - 3, 0) + 1
                   ELSE /\ (FirstAt > 0) <=>
                               (CountOne(authored[1]) + RunCost(n - k + 1) < limit)
                        /\ FirstAt > 0 => FirstAt = 1

\* C2 witness: a first message that is not a system message is returned in
\* front of a run that does not start right after it.
C2_Witness ==
    /\ pc = "returned"
    /\ ~HasSystemFirst
    /\ FirstAt = 1
    /\ Len(Origins) >= 2
    /\ Origins[2] > 2

\* C3 as stated: the returned messages are in the order of the input.
C3_OrderPreserved ==
    pc = "returned" =>
        \A a, b \in 1..Len(Origins) : a < b => Origins[a] < Origins[b]

\* C3 amended: the messages returned from the positions after the first keep
\* their relative order, and a first message that is not a system message
\* precedes them all; a retained system message precedes every accepted
\* message only when at most three were accepted, and otherwise stands
\* after all but the last three of them.
C3_OrderUpToSystem ==
    pc = "returned" =>
        /\ \A a, b \in 1..Len(Origins) :
               (a < b /\ Origins[a] >= 2 /\ Origins[b] >= 2) => Origins[a] < Origins[b]
        /\ (FirstAt > 0 /\ ~HasSystemFirst) => FirstAt = 1
        /\ (FirstAt > 0 /\ HasSystemFirst) =>
               Cardinality({b \in 1..Len(Origins) : b > FirstAt}) =
                   (IF Len(Origins) - 1 < 3 THEN Len(Origins) - 1 ELSE 3)

\* C3 witness: a retained system message is returned after an accepted
\* later message.
C3_Witness ==
    /\ pc = "returned"
    /\ HasSystemFirst
    /\ FirstAt > 1

\* The history [system, user, assistant, user] returned whole.
FourTurnsAllReturned ==
    /\ pc = "returned"
    /\ Len(authored) = 4
    /\ [i \in 1..4 |-> authored[i].role] = <<"system", "user", "assistant", "user">>
    /\ Len(limitedMessages) = 4

\* C5 as stated: [S, U1, A1, U2] under a limit that fits all four comes back
\* as [U1, S, A1, U2].
C5_SystemAtIndexOne == FourTurnsAllReturned => Origins = <<2, 1, 3, 4>>

\* C5 amended: it comes back as [S, U1, A1, U2], the system message at index 0
\* (three accepted messages: the insertion point three from the end is the
\* head).
C5_SystemAtIndexZero == FourTurnsAllReturned => Origins = <<1, 2, 3, 4>>

\* C5 witness: that history, returned whole.
C5_Witness == FourTurnsAllReturned

\* C4 as stated: an empty history returns an empty list, without a fault and
\* without reaching the serializer.
C4_EmptyReturnsEmpty ==
    (pc # "ready" /\ Len(authored) = 0) =>
        /\ pc = "returned"
        /\ limitedMessages = <<>>
        /\ serializerCalls = 0

\* C6: the call leaves the caller's array and its messages as they were, and
\* every returned message is a copy holding the normalized content.
C6_InputUnmodified ==
    pc # "ready" =>
        /\ Len(messages) = Len(authored)
        /\ \A i \in 1..Len(messages) : heap[messages[i]] = authored[i]
        /\ \A k \in 1..Len(limitedMessages) :
               /\ \A i \in 1..Len(messages) : limitedMessages[k] # messages[i]
               /\ Out(k).role = authored[Origin(k)].role
               /\ Out(k).content = toHalfWidth(authored[Origin(k)].content)

\* C6 witness: a message whose content the normalizer changes is returned.
C6_Witness ==
    /\ pc = "returned"
    /\ \E k \in 1..Len(limitedMessages) :
           /\ Origin(k) \in 1..Len(authored)
           /\ authored[Origin(k)].content # toHalfWidth(authored[Origin(k)].content)

\* C9: the messages accepted from the positions after the first are the
\* longest trailing run whose cumulative individual count, added to the
\* count reserved for a retained system message, is at most the limit.
C9_LongestTrailingRun ==
    pc # "ready" =>
        LET n == Len(authored)
            k == Len(AcceptedOrigins)
        IN  /\ AcceptedOrigins = Run(n - k + 1, n)
            /\ Reserved + RunCost(n - k + 1) <= limit
            /\ n - k >= 2 => Reserved + RunCost(n - k) > limit

\* C9 witness: the run reaches the limit exactly and stops at a message that
\* does not fit, leaving out an earlier message that alone would fit.
C9_Witness ==
    /\ pc = "returned"
    /\ Len(AcceptedOrigins) >= 1
    /\ Len(authored) - Len(AcceptedOrigins) >= 3
    /\ Reserved + RunCost(Len(authored) - Len(AcceptedOrigins) + 1) = limit
    /\ Reserved + CountOne(authored[2]) <= limit

----------------------------------------------------------------------------
\* Vocabulary of the accumulator's properties.

PromptOf(totals, m) == FieldOrZero(EntryOrEmpty(totals, m), "promptTokens")
CompletionOf(totals, m) == FieldOrZero(EntryOrEmpty(totals, m), "completionTokens")

\* The counts of an invocation with the given arguments.
PromptCount(args) == countTokens(args.promptMessages, args.model)
CompletionCount(args) == countTokens(<<args.completionMessage>>, args.model)

\* C7: an invocation adds exactly its two counts to its model's counters (a
\* missing entry or field counting as 0) and leaves every other model's entry
\* as it was; a second invocation with the same arguments leaves the counters
\* at twice the counts over what they were before the first.
C7_ExactIncrement ==
    [][usageCalls' # usageCalls =>
          LET m == lastArgs'.model
          IN  /\ totalTokenUsed'[m] =
                     [promptTokens |->
                          PromptOf(totalTokenUsed, m) + PromptCount(lastArgs'),
                      completionTokens |->
                          CompletionOf(totalTokenUsed, m) + CompletionCount(lastArgs')]
              /\ DOMAIN totalTokenUsed' = DOMAIN totalTokenUsed \cup {m}
              /\ \A other \in DOMAIN totalTokenUsed \ {m} :
                     totalTokenUsed'[other] = totalTokenUsed[other]
              /\ repeated' =>
                     /\ PromptOf(totalTokenUsed', m) =
                            PromptOf(beforeLast, m) + 2 * PromptCount(lastArgs')
                     /\ CompletionOf(totalTokenUsed', m) =
                            CompletionOf(beforeLast, m) + 2 * CompletionCount(lastArgs')
    ]_vars

\* C7 witness: two invocations with the same arguments have been made, for a
\* model whose entry lacked a field, while another model has an entry.
C7_Witness ==
    /\ repeated
    /\ PromptCount(lastArgs) > 0
    /\ lastArgs.model \in DOMAIN initialTotals
    /\ DOMAIN initialTotals[lastArgs.model] # {"promptTokens", "completionTokens"}
    /\ DOMAIN totalTokenUsed = Models

\* C10: whatever invocations are made and in whatever order, no update is
\* lost: each model's counters are their initial values plus the sum of the
\* counts of every invocation made for the model, and no counter decreases
\* at any step.
C10_NoLostUpdate ==
    /\ [](\A m \in Models :
             /\ PromptOf(totalTokenUsed, m) =
                    PromptOf(initialTotals, m) + issued[m].promptTokens
             /\ CompletionOf(totalTokenUsed, m) =
                    CompletionOf(initialTotals, m) + issued[m].completionTokens)
    /\ [][\A m \in Models :
             /\ PromptOf(totalTokenUsed', m) >= PromptOf(totalTokenUsed, m)
             /\ CompletionOf(totalTokenUsed', m) >= CompletionOf(totalTokenUsed, m)]_vars

\* C10 witness: invocations for both models have been made, the latest for
\* the model of an earlier one, on a store that held totals at the start.
C10_Witness ==
    /\ usageCalls >= 3
    /\ \A m \in Models : issued[m].promptTokens > 0
    /\ issued[lastArgs.model].completionTokens > CompletionCount(lastArgs)
    /\ initialTotals # EmptyObject

----------------------------------------------------------------------------
\* C8 as stated: the normalizer replaces each of the four curly quotes by its
\* straight quote and every full-width character of its set by the
\* half-width one, and keeps every other character.
C8_QuotesAndFullWidth ==
    normalizerDone =>
        normalized =
            [i \in 1..Len(inputText) |->
                IF inputText[i] \in DOMAIN halfWidthMap THEN halfWidthMap[inputText[i]]
                ELSE IF inputText[i] \in DOMAIN halfWidthSymbolsMapping
                    THEN halfWidthSymbolsMapping[inputText[i]]
                    ELSE inputText[i]]

====
